---------------------------- MODULE Spec2Model ----------------------------
(***************************************************************************)
(* Model of the OpenGL/ImGui overlay hook (src/src/lib.rs).                *)
(*                                                                         *)
(* The program state is the four process-wide statics INIT, IMGUI,         *)
(* IMGUI_RENDERER and ORIG_HWND, plus the part of the host it writes: the  *)
(* game window's procedure pointer (GWL_WNDPROC).  The operations are the  *)
(* two entry points the host calls into: the presentation detour           *)
(* wglSwapBuffers_detour and the window procedure wndproc_hook.  Each is   *)
(* one atomic action (the host runs them one after another).  The library  *)
(* entry point DllMain, which installs the detour, and the symbol lookup   *)
(* get_module_library have specifications of their own, and so have two    *)
(* host threads that run the detour statement by statement.                *)
(*                                                                         *)
(* Observation variables (nCalls, nOrig, lastCall, evt, ...) record what   *)
(* the environment sees: which calls the code made into the original       *)
(* presentation function and the original window procedure, and with       *)
(* which arguments.  They never influence the program state.               *)
(***************************************************************************)
EXTENDS Integers, Sequences, FiniteSets, TLC

VARIABLES
    INIT,            \* static mut INIT: bool
    IMGUI,           \* static mut IMGUI: Option<Context>
    IMGUI_RENDERER,  \* static mut IMGUI_RENDERER: Option<Renderer>
    ORIG_HWND,       \* static mut ORIG_HWND: Option<window procedure>
    wndProc,         \* the game window's current procedure (GWL_WNDPROC)
    alive,           \* the host process is still running
    nCalls,          \* presentation calls made by the host so far
    nOrig,           \* invocations of the original presentation function
    nFrames,         \* overlay frames advanced and rendered
    initRuns,        \* executions of the initialization block
    initFailed,      \* a step of the initialization block has failed
    lastCall,        \* what the last presentation call did
    nEvents,         \* window events delivered to wndproc_hook
    evt,             \* what the last window event did
    last,            \* which entry point ran last
    boot,            \* what the library entry point (DllMain) did
    resolve,         \* a call of get_module_library and its outcome
    thr              \* where each host thread stands inside the detour

vars == <<INIT, IMGUI, IMGUI_RENDERER, ORIG_HWND, wndProc, alive, nCalls, nOrig,
          nFrames, initRuns, initFailed, lastCall, nEvents, evt, last,
          boot, resolve, thr>>

---------------------------------------------------------------------------
(* Bounds of the model                                                     *)

\* Entry-point invocations (presentation calls, window events and calls of
\* the library entry point) in a run
MaxSteps == 4

\* Bytes in a module or function name handed to get_module_library
MaxNameLen == 2

---------------------------------------------------------------------------
(* Program constants (Win32 message codes and friends imported by lib.rs)  *)

WM_ACTIVATE == 6

WM_KEYDOWN == 256

WM_KEYUP == 257

WM_CHAR == 258

WM_SYSKEYDOWN == 260

WM_SYSKEYUP == 261

WM_LBUTTONDOWN == 513

WM_LBUTTONUP == 514

WM_LBUTTONDBLCLK == 515

WM_RBUTTONDOWN == 516

WM_RBUTTONUP == 517

WM_RBUTTONDBLCLK == 518

WM_MBUTTONDOWN == 519

WM_MBUTTONUP == 520

WM_MBUTTONDBLCLK == 521

WM_MOUSEWHEEL == 522

WM_XBUTTONDOWN == 523

WM_XBUTTONUP == 524

WM_XBUTTONDBLCLK == 525

WM_MOUSEHWHEEL == 526

XBUTTON1 == 1

WHEEL_DELTA == 120

\* Two message codes the match of imgui_wnd_proc_impl does not name
\* (WM_PAINT and WM_MOUSEMOVE): they take the `_ => {}` arm.
WM_PAINT == 15

WM_MOUSEMOVE == 512

\* LRESULT(1), the "consumed" sentinel.
CONSUMED == 1

---------------------------------------------------------------------------
(* Option<T>: None is the empty tuple, Some(x) the one-element tuple.      *)

None == <<>>

Some(x) == <<x>>

IsSome(o) == o # <<>>

Unwrap(o) == o[1]

---------------------------------------------------------------------------
(* Start-up: DllMain, main and the steps main runs (lines 37-78, 286-299)  *)

DLL_PROCESS_ATTACH == 1

\* call_reason values the loader passes to DllMain: process attach and a
\* later notification (thread attach)
CallReasons == {DLL_PROCESS_ATTACH, 2}

\* Names are byte strings, abbreviated to their first letter; 0 is NUL.
NameBytes == {0, 111, 119}

Names == UNION {[1..n -> NameBytes] : n \in 0..MaxNameLen}

\* "opengl32.dll"
Opengl32Dll == <<111>>

\* "wglSwapBuffers"
WglSwapBuffers == <<119>>

\* CString::new(name): Err(NulError) when the name holds a NUL byte
CString_new(name) ==
    IF \E i \in 1..Len(name) : name[i] = 0 THEN "Err" ELSE "Ok"

\* Result::is_ok, also the test behind the `?` operator
\* (faulty variant: every result is taken for a success)
is_ok_always(r) == TRUE

is_ok(r) == r = "Ok"

\* Result::expect: the value of an Ok, a panic on an Err
expect(r) == IF is_ok(r) THEN "Ok" ELSE "panic"

\* create_debug_console(); allocOk: whether AllocConsole succeeds
create_debug_console(allocOk) == IF ~allocOk THEN "Err" ELSE "Ok"

\* get_module_library(module, function)
\*   loaded   the names of the modules loaded in the process
\*   exports  the names the module found exports
get_module_library(module, function, loaded, exports) ==
    LET module_cstring   == expect(CString_new(module))
        function_cstring == expect(CString_new(function))
        h_instance       == IF module \in loaded THEN "Ok" ELSE "Err"
        func             == IF function \in exports THEN "Ok" ELSE "Err"
    IN  IF module_cstring = "panic" THEN "panic"
        ELSE IF function_cstring = "panic" THEN "panic"
        ELSE IF ~is_ok(h_instance) THEN "Err"
        ELSE IF func = "Ok" THEN "Ok"
        ELSE "Err"

\* The environment main runs in
\*   alloc       AllocConsole succeeds
\*   loaded      the modules loaded in the process
\*   exports     the names opengl32.dll exports
\*   initialize  OpenGl32wglSwapBuffers.initialize succeeds
\*   enable      OpenGl32wglSwapBuffers.enable succeeds
Environments ==
    [alloc : BOOLEAN, loaded : {{}, {Opengl32Dll}},
     exports : {{}, {WglSwapBuffers}}, initialize : BOOLEAN,
     enable : BOOLEAN]

\* main(): the steps attempted in order, whether the redirection is
\* enabled, and the result.
main(env) ==
    LET r1  == create_debug_console(env.alloc)
        r2  == get_module_library(Opengl32Dll, WglSwapBuffers, env.loaded,
                                  env.exports)
        r3  == IF env.initialize THEN "Ok" ELSE "Err"
        r4  == IF env.enable THEN "Ok" ELSE "Err"
        out(steps, enabled, result) ==
            [steps |-> steps, enabled |-> enabled, result |-> result]
    IN  IF ~is_ok(r1) THEN out(<<"console">>, FALSE, "Err")
        ELSE IF r2 = "panic"
        THEN out(<<"console", "resolve">>, FALSE, "panic")
        ELSE IF ~is_ok(r2)
        THEN out(<<"console", "resolve">>, FALSE, "Err")
        ELSE IF ~is_ok(r3)
        THEN out(<<"console", "resolve", "initialize">>, FALSE, "Err")
        ELSE IF ~is_ok(r4)
        THEN out(<<"console", "resolve", "initialize", "enable">>, FALSE,
                 "Err")
        ELSE out(<<"console", "resolve", "initialize", "enable">>, TRUE,
                 "Ok")

\* The environment in which every step of main succeeds
Healthy == [alloc |-> TRUE, loaded |-> {Opengl32Dll},
            exports |-> {WglSwapBuffers}, initialize |-> TRUE,
            enable |-> TRUE]

\* The library before the loader has called its entry point
Unloaded == [attached |-> FALSE, env |-> Healthy, steps |-> <<>>,
             enabled |-> FALSE, ret |-> None, calls |-> 0]

\* The library once main has run through
Enabled == [attached |-> TRUE, env |-> Healthy,
            steps |-> <<"console", "resolve", "initialize", "enable">>,
            enabled |-> TRUE, ret |-> Some(TRUE), calls |-> 0]

\* Entry-point invocations taken so far
steps_taken == boot.calls + nCalls + nEvents

\* DllMain(_module, call_reason, _reserved).  The loader attaches a library
\* once, sends further notifications only to an attached library, and
\* unloads it when the attach returns FALSE.  A panic in main leaves
\* DllMain through a foreign frame and ends the process.
DllMain(call_reason, env) ==
    /\ alive
    /\ steps_taken < MaxSteps
    /\ IF call_reason = DLL_PROCESS_ATTACH
       THEN /\ ~boot.attached
            /\ LET m == main(env)
               IN  /\ boot' = [attached |-> TRUE, env |-> env,
                               steps |-> m.steps, enabled |-> m.enabled,
                               ret |-> IF m.result = "panic" THEN None
                                       ELSE Some(is_ok(m.result)),
                               calls |-> boot.calls + 1]
                   /\ alive' = (m.result # "panic")
       ELSE /\ boot.attached
            /\ boot.ret = Some(TRUE)
            /\ boot' = [boot EXCEPT !.ret = Some(TRUE),
                                    !.calls = boot.calls + 1]
            /\ alive' = alive
    /\ last' = "dllmain"
    /\ UNCHANGED <<INIT, IMGUI, IMGUI_RENDERER, ORIG_HWND, wndProc, nCalls,
                   nOrig, nFrames, initRuns, initFailed, lastCall, nEvents,
                   evt, resolve, thr>>

\* One call of get_module_library with the arguments and the environment
\* held in resolve.
Resolve ==
    /\ IsSome(resolve)
    /\ Unwrap(resolve).outcome = "pending"
    /\ resolve' = Some([Unwrap(resolve) EXCEPT
                           !.outcome = get_module_library(
                                           Unwrap(resolve).module,
                                           Unwrap(resolve).function,
                                           Unwrap(resolve).loaded,
                                           Unwrap(resolve).exports)])
    /\ UNCHANGED <<INIT, IMGUI, IMGUI_RENDERER, ORIG_HWND, wndProc, alive,
                   nCalls, nOrig, nFrames, initRuns, initFailed, lastCall,
                   nEvents, evt, last, boot, thr>>

---------------------------------------------------------------------------
(* Inputs                                                                  *)

\* Device contexts the host presents with: one that belongs to the game
\* window and one with no window (WindowFromDC returns NULL for it).
DCs == {"dcGame", "dcOffscreen"}

NULL == "NULL"

GameWindow == "hwndGame"

\* Results the host's original window procedure may return.
OrigResults == {0, 1}

KeyMsgs == {WM_KEYDOWN, WM_SYSKEYDOWN, WM_KEYUP, WM_SYSKEYUP}

PlainButtonMsgs == {WM_LBUTTONDOWN, WM_LBUTTONDBLCLK, WM_LBUTTONUP,
                    WM_RBUTTONDOWN, WM_RBUTTONDBLCLK, WM_RBUTTONUP,
                    WM_MBUTTONDOWN, WM_MBUTTONDBLCLK, WM_MBUTTONUP}

XButtonMsgs == {WM_XBUTTONDOWN, WM_XBUTTONDBLCLK, WM_XBUTTONUP}

WheelMsgs == {WM_MOUSEWHEEL, WM_MOUSEHWHEEL}

OtherMsgs == {WM_PAINT, WM_MOUSEMOVE}

Msgs == KeyMsgs \cup PlainButtonMsgs \cup XButtonMsgs \cup WheelMsgs
        \cup {WM_CHAR, WM_ACTIVATE} \cup OtherMsgs

\* A WPARAM is pointer-sized (64 bits), wider than TLC's integers, so it is
\* held as two parts: W(up, lw) is the value
\* up * 2^16 + lw, with lw its low word (bits 0..15) and up the bits from 16
\* upwards (bits 16..31 are the high word, bits 32.. lie above a u32).
W(up, lw) == [up |-> up, lw |-> lw]

\* <<wparam, lparam>> pairs delivered with each message code.
Params(umsg) ==
    CASE umsg \in KeyMsgs ->
            \* key codes 65 and 255, code 256 and, for two codes, 2^32 + 65
            {<<W(0, 65), 0>>, <<W(0, 255), 3>>, <<W(0, 256), 0>>}
            \cup (IF umsg \in {WM_KEYDOWN, WM_SYSKEYUP}
                  THEN {<<W(65536, 65), 0>>} ELSE {})
      [] umsg \in PlainButtonMsgs -> {<<W(0, 1), 7>>}
      [] umsg \in XButtonMsgs ->
            \* high word 1 (XBUTTON1) with low-word key flags, high word 2
            \* (XBUTTON2) and, for one code each, high word 1 under a set
            \* bit 32 and high word 0 over low word 1
            {<<W(1, 32), 7>>, <<W(2, 0), 0>>}
            \cup (IF umsg = WM_XBUTTONDOWN THEN {<<W(65537, 0), 0>>} ELSE {})
            \cup (IF umsg = WM_XBUTTONDBLCLK THEN {<<W(0, 1), 0>>} ELSE {})
      [] umsg \in WheelMsgs ->
            \* high word +120, -120 (0xFF88) and, for one code, -32768 (0x8000)
            {<<W(120, 0), 0>>, <<W(65416, 8), 5>>}
            \cup (IF umsg = WM_MOUSEWHEEL THEN {<<W(32768, 0), 0>>} ELSE {})
      [] umsg = WM_CHAR -> {<<W(0, 65), 0>>, <<W(0, 321), 1>>}
      [] umsg = WM_ACTIVATE -> {<<W(0, 1), 9>>, <<W(32, 2), 0>>}
      [] umsg = WM_PAINT -> {<<W(0, 0), 0>>}
      [] OTHER -> {<<W(0, 3), 9>>}

---------------------------------------------------------------------------
(* Pure helpers of lib.rs                                                  *)

\* `x as u32` of a pointer-sized value: the bits from 32 upwards are dropped
as_u32(x) == [x EXCEPT !.up = @ % 65536]

\* `x as usize` used as an array index (of a value known to be small)
as_index(x) == x.up * 65536 + x.lw

\* `x as i16` of a u16
\* (faulty variant: the sign of the 16-bit value is lost)
as_i16_unsigned(u) == u

as_i16(u) == IF u >= 32768 THEN u - 65536 ELSE u

\* `x as u8`
as_u8(x) == x.lw % 256

\* ((l >> 16) & 0xffff) of a u32
hiword(l) == l.up % 65536

get_wheel_delta_wparam(wparam) == hiword(wparam)

---------------------------------------------------------------------------
(* The UI context.  Its io holds the input model:                          *)
(*   keys_down     the indices of io.keys_down that are true               *)
(*   mouse_down    io.mouse_down, five flags indexed 0..4                  *)
(*   mouse_wheel,  io.mouse_wheel and io.mouse_wheel_h, held exactly as    *)
(*   mouse_wheel_h   the fraction num / den (the code adds delta /         *)
(*                   WHEEL_DELTA in f32; rounding is not modelled)         *)
(*   chars         the queued input characters (code points)               *)
(*   mouse_pos     io.mouse_pos; <<-1, -1>> stands for the library's       *)
(*                 "no position" default                                   *)
(*   delta_time    io.delta_time in microseconds; a new context holds the  *)
(*                 library's default of 1/60 s                             *)

NewIo == [keys_down |-> {},
          mouse_down |-> [b \in 0..4 |-> FALSE],
          mouse_wheel |-> [num |-> 0, den |-> WHEEL_DELTA],
          mouse_wheel_h |-> [num |-> 0, den |-> WHEEL_DELTA],
          chars |-> <<>>,
          mouse_pos |-> <<-1, -1>>,
          delta_time |-> 16667]

\* Context::create() followed by the io set-up of the initialization block
ContextCreate(n) == [id |-> n, io |-> NewIo]

\* Renderer::new(&mut imgui, loader): a renderer bound to that context
RendererNew(ctx) == [ctx |-> ctx.id]

---------------------------------------------------------------------------
(* imgui_wnd_proc_impl: the update of the input model                      *)

\* (faulty variant: the bound is off by one)
key_in_range_inclusive(wparam) == wparam.up = 0 /\ wparam.lw <= 256

key_in_range(wparam) == wparam.up = 0 /\ wparam.lw < 256

\* the extended button an X-button event is about
\* (faulty variant: the low word is compared instead of the high word)
xbutton_index_low_word(wparam) == IF wparam.lw = XBUTTON1 THEN 3 ELSE 4

xbutton_index(wparam) == IF hiword(as_u32(wparam)) = XBUTTON1 THEN 3 ELSE 4

\* `get_wheel_delta_wparam(wparam as _) as i16`
wheel_delta(wparam) == as_i16(get_wheel_delta_wparam(as_u32(wparam)))

\* `acc += (delta as f32) / wheel_delta`, with wheel_delta = WHEEL_DELTA
\* (every accumulator is a fraction over WHEEL_DELTA, so the numerators add)
wheel_add(acc, delta) == [num |-> acc.num + delta, den |-> WHEEL_DELTA]

\* (faulty variant: the up arm does not clear the flag)
button_released_stays_down(flags, btn) == flags

button_released(flags, btn) == [flags EXCEPT ![btn] = FALSE]

button_pressed(flags, btn) == [flags EXCEPT ![btn] = TRUE]

\* The match on umsg, arm by arm; the result is the io after the match.
io_after_match(io, umsg, wparam) ==
    CASE umsg \in {WM_KEYDOWN, WM_SYSKEYDOWN} ->
            IF key_in_range(wparam)
            THEN [io EXCEPT !.keys_down = @ \cup {as_index(wparam)}]
            ELSE io
      [] umsg \in {WM_KEYUP, WM_SYSKEYUP} ->
            IF key_in_range(wparam)
            THEN [io EXCEPT !.keys_down = @ \ {as_index(wparam)}]
            ELSE io
      [] umsg \in {WM_LBUTTONDOWN, WM_LBUTTONDBLCLK} ->
            [io EXCEPT !.mouse_down = button_pressed(@, 0)]
      [] umsg \in {WM_RBUTTONDOWN, WM_RBUTTONDBLCLK} ->
            [io EXCEPT !.mouse_down = button_pressed(@, 1)]
      [] umsg \in {WM_MBUTTONDOWN, WM_MBUTTONDBLCLK} ->
            [io EXCEPT !.mouse_down = button_pressed(@, 2)]
      [] umsg \in {WM_XBUTTONDOWN, WM_XBUTTONDBLCLK} ->
            [io EXCEPT !.mouse_down = button_pressed(@, xbutton_index(wparam))]
      [] umsg = WM_LBUTTONUP ->
            [io EXCEPT !.mouse_down = button_released(@, 0)]
      [] umsg = WM_RBUTTONUP ->
            [io EXCEPT !.mouse_down = button_released(@, 1)]
      [] umsg = WM_MBUTTONUP ->
            [io EXCEPT !.mouse_down = button_released(@, 2)]
      [] umsg = WM_XBUTTONUP ->
            [io EXCEPT !.mouse_down = button_released(@, xbutton_index(wparam))]
      [] umsg = WM_MOUSEWHEEL ->
            [io EXCEPT !.mouse_wheel = wheel_add(@, wheel_delta(wparam))]
      [] umsg = WM_MOUSEHWHEEL ->
            [io EXCEPT !.mouse_wheel_h = wheel_add(@, wheel_delta(wparam))]
      [] umsg = WM_CHAR ->
            \* io.add_input_character(wparam as u8 as char)
            [io EXCEPT !.chars = Append(@, as_u8(wparam))]
      [] OTHER -> io

\* The arms that `return LRESULT(1)` instead of falling through to the
\* forwarding call.
\* (faulty variant: the activation arm falls through)
returns_early_never(umsg) == FALSE

returns_early(umsg) == umsg = WM_ACTIVATE

\* The arguments handed to CallWindowProcW
forward_args(hwnd, umsg, wparam, lparam) ==
    [hwnd |-> hwnd, msg |-> umsg, wparam |-> wparam, lparam |-> lparam]

\* CallWindowProcW(prev, ...): the calls that reach the host's procedure and
\* the value that comes back, when the host's procedure would answer r.
\* A null prev calls nothing and yields 0.
CallWindowProcW(prev, args, r) ==
    IF prev = Some("host")
    THEN [calls |-> <<[args |-> args, ret |-> r]>>, ret |-> r]
    ELSE [calls |-> <<>>, ret |-> 0]

\* imgui_wnd_proc_impl on a present context: the io after it, the calls it
\* made to the original procedure and its result.
imgui_wnd_proc_impl(io, hwnd, umsg, wparam, lparam, r1) ==
    LET io1 == io_after_match(io, umsg, wparam)
        fw  == CallWindowProcW(ORIG_HWND, forward_args(hwnd, umsg, wparam, lparam), r1)
    IN  IF returns_early(umsg)
        THEN [io |-> io1, calls |-> <<>>, ret |-> CONSUMED]
        ELSE [io |-> io1, calls |-> fw.calls, ret |-> fw.ret]

\* wndproc_hook after imgui_wnd_proc_impl has answered `impl`
\* (faulty variant: the hook answers LRESULT(1) to every event)
hook_always_consumed(impl, hwnd, umsg, wparam, lparam, r2) ==
    [calls |-> impl.calls, ret |-> CONSUMED]

hook_after_impl(impl, hwnd, umsg, wparam, lparam, r2) ==
    IF impl.ret = CONSUMED
    THEN [calls |-> impl.calls, ret |-> CONSUMED]
    ELSE LET fw == CallWindowProcW(ORIG_HWND,
                                   forward_args(hwnd, umsg, wparam, lparam), r2)
         IN  [calls |-> impl.calls \o fw.calls, ret |-> fw.ret]

\* One window event delivered to the custom procedure.  r1 and r2 are what
\* the host's procedure answers to the first and to the second forwarding.
\*  - IMGUI absent: the unwrap in imgui_wnd_proc_impl panics; the panic
\*    leaves a foreign callback, so the process is either torn down or
\*    carries on.
\*  - ORIG_HWND holding wndproc_hook itself: the forwarding re-enters the
\*    hook without end and the stack overflows.
wndproc_hook(hwnd, umsg, wparam, lparam, r1, r2) ==
    LET io0 == IF IsSome(IMGUI) THEN Unwrap(IMGUI).io ELSE NewIo
        pre == [mouse_down |-> io0.mouse_down, mouse_wheel |-> io0.mouse_wheel,
                mouse_wheel_h |-> io0.mouse_wheel_h]
        rec(outcome, calls, ret) ==
            Some([msg |-> umsg, wparam |-> wparam, lparam |-> lparam,
                  hwnd |-> hwnd, outcome |-> outcome, calls |-> calls,
                  ret |-> ret, pre |-> pre])
    IN
    /\ alive
    /\ wndProc = "hook"
    /\ steps_taken < MaxSteps
    /\ nEvents' = nEvents + 1
    /\ last' = "event"
    /\ IF ~IsSome(IMGUI)
       THEN /\ evt' = rec("panic", <<>>, 0)
            /\ alive' \in BOOLEAN
            /\ IMGUI' = IMGUI
       ELSE IF ORIG_HWND = Some("hook") /\ ~returns_early(umsg)
       THEN /\ evt' = rec("overflow", <<>>, 0)
            /\ alive' = FALSE
            /\ IMGUI' = IMGUI
       ELSE LET impl == imgui_wnd_proc_impl(Unwrap(IMGUI).io, hwnd, umsg,
                                            wparam, lparam, r1)
                res  == hook_after_impl(impl, hwnd, umsg, wparam, lparam, r2)
            IN  /\ evt' = rec("returned", res.calls, res.ret)
                /\ alive' = alive
                /\ IMGUI' = Some([Unwrap(IMGUI) EXCEPT !.io = impl.io])
    /\ UNCHANGED <<INIT, IMGUI_RENDERER, ORIG_HWND, wndProc, nCalls, nOrig,
                   nFrames, initRuns, initFailed, lastCall, boot, resolve,
                   thr>>

---------------------------------------------------------------------------
(* wglSwapBuffers_detour                                                   *)

\* The host threads that present frames
Threads == {"t1", "t2"}

\* A thread outside the detour
Idle == [pc |-> "idle", dc |-> "dcGame", init |-> FALSE, id |-> 0,
         frame |-> FALSE, failed |-> {}]

\* WindowFromDC(dc): the window a device context belongs to, or NULL
WindowFromDC(dc) == IF dc = "dcGame" THEN GameWindow ELSE NULL

\* SetWindowLongPtrW(game_window, GWL_WNDPROC, wndproc_hook) as an Option:
\* the procedure the window had before (cur) when the swap takes place,
\* nothing (0) when it fails.
SetWindowLongPtrW(cur, swapped) == IF swapped THEN Some(cur) ELSE None

\* `if !unsafe { INIT }`
\* (faulty variant: the flag is not consulted)
needs_init_always(init) == TRUE

needs_init(init) == ~init

\* The steps of the detour that call into the UI library or the renderer;
\* they return no error value, so the only way they fail is by panicking.
PanicPoints == {"create", "renderer", "frame", "render"}

\* ui.render() inside rendererer.render(ui): ending the frame consumes the
\* transient input (wheel deltas, queued characters).
end_frame(io) == [io EXCEPT !.mouse_wheel = NewIo.mouse_wheel,
                            !.mouse_wheel_h = NewIo.mouse_wheel_h,
                            !.chars = <<>>]

\* the two stores to io.mouse_pos that close the frame block
set_mouse_pos(io) == [io EXCEPT !.mouse_pos = <<300, 110>>]

\* OpenGl32wglSwapBuffers.call(dc): the device contexts the original
\* presentation function is called with, in order.
\* (faulty variant: the device context of the first call is reused)
call_original_first_dc(dc) ==
    IF IsSome(lastCall) THEN Unwrap(lastCall).fwd ELSE <<dc>>

call_original(dc) == <<dc>>

\* One presentation call.
\*   dc       the device context the host presents
\*   swapOk   whether SetWindowLongPtrW succeeds on a valid window
\*   panicAt  the library step that panics in this call ("none": no step)
\*   elapsed  the milliseconds since the host's previous presentation call;
\*            the detour reads no clock, the value is only recorded
\* A panic leaves the detour through a foreign frame: the process is
\* either torn down or carries on.
wglSwapBuffers_detour(dc, swapOk, panicAt, elapsed) ==
    LET doInit      == needs_init(INIT)
        game_window == WindowFromDC(dc)
        \* SetWindowLongPtrW: on success the window's procedure becomes
        \* wndproc_hook and the previous one is returned; on failure 0.
        swapped     == doInit /\ game_window # NULL /\ swapOk
        prev        == SetWindowLongPtrW(wndProc, swapped)
        ORIG_HWND1  == IF doInit THEN prev ELSE ORIG_HWND
        wndProc1    == IF swapped THEN "hook" ELSE wndProc
        initPanic   == doInit /\ panicAt \in {"create", "renderer"}
        initDone    == doInit /\ ~initPanic
        imgui       == ContextCreate(initRuns + 1)
        IMGUI1      == IF initDone THEN Some(imgui) ELSE IMGUI
        RENDERER1   == IF initDone THEN Some(RendererNew(imgui)) ELSE IMGUI_RENDERER
        INIT1       == IF initDone THEN TRUE ELSE INIT
        \* `if unsafe { INIT }`
        doFrame     == INIT1 /\ ~initPanic
        framePanic  == doFrame /\ panicAt \in {"frame", "render"}
        rendered    == doFrame /\ panicAt # "frame"
        completed   == doFrame /\ ~framePanic
        io0         == Unwrap(IMGUI1).io
        io1         == IF rendered THEN end_frame(io0) ELSE io0
        io2         == IF completed THEN set_mouse_pos(io1) ELSE io1
        IMGUI2      == IF doFrame THEN Some([Unwrap(IMGUI1) EXCEPT !.io = io2])
                       ELSE IMGUI1
        panicked    == initPanic \/ framePanic
        failed      == (IF doInit /\ game_window = NULL THEN {"window"} ELSE {})
                       \cup (IF doInit /\ ~swapped THEN {"swap"} ELSE {})
                       \cup (IF panicked THEN {panicAt} ELSE {})
        fwd         == IF panicked THEN <<>> ELSE call_original(dc)
    IN
    /\ alive
    /\ boot.enabled
    /\ \A t \in Threads : thr[t].pc = "idle"
    /\ steps_taken < MaxSteps
    /\ nCalls' = nCalls + 1
    /\ last' = "present"
    /\ INIT' = INIT1
    /\ IMGUI' = IMGUI2
    /\ IMGUI_RENDERER' = RENDERER1
    /\ ORIG_HWND' = ORIG_HWND1
    /\ wndProc' = wndProc1
    /\ initRuns' = IF doInit THEN initRuns + 1 ELSE initRuns
    /\ initFailed' = (initFailed \/ (doInit /\ failed # {}))
    /\ nFrames' = IF completed THEN nFrames + 1 ELSE nFrames
    /\ nOrig' = nOrig + Len(fwd)
    /\ alive' \in (IF panicked THEN BOOLEAN ELSE {alive})
    /\ lastCall' = Some([dc |-> dc, fwd |-> fwd, init |-> doInit,
                         frame |-> completed, failed |-> failed,
                         returned |-> ~panicked, elapsed |-> elapsed])
    /\ UNCHANGED <<nEvents, evt, boot, resolve, thr>>

---------------------------------------------------------------------------
(* wglSwapBuffers_detour statement by statement, on two host threads.  The *)
(* statics are plain `static mut`: every read and write is a step of its   *)
(* own thread and the steps of different threads interleave freely.        *)

\* The thread enters wglSwapBuffers_detour(dc).
Enter(t, dc) ==
    /\ alive
    /\ boot.enabled
    /\ thr[t].pc = "idle"
    /\ steps_taken < MaxSteps
    /\ nCalls' = nCalls + 1
    /\ thr' = [thr EXCEPT ![t] = [Idle EXCEPT !.pc = "check", !.dc = dc]]
    /\ UNCHANGED <<INIT, IMGUI, IMGUI_RENDERER, ORIG_HWND, wndProc, alive,
                   nOrig, nFrames, initRuns, initFailed, lastCall, nEvents,
                   evt, last, boot, resolve>>

\* `if !unsafe { INIT }` (line 198): the flag is read.
CheckInit(t) ==
    /\ alive
    /\ thr[t].pc = "check"
    /\ thr' = [thr EXCEPT ![t].pc = IF needs_init(INIT) THEN "swap"
                                    ELSE "frame",
                          ![t].init = needs_init(INIT)]
    /\ UNCHANGED <<INIT, IMGUI, IMGUI_RENDERER, ORIG_HWND, wndProc, alive,
                   nCalls, nOrig, nFrames, initRuns, initFailed, lastCall,
                   nEvents, evt, last, boot, resolve>>

\* WindowFromDC and ORIG_HWND = SetWindowLongPtrW(..) (lines 199-210).
SwapWndProc(t, swapOk) ==
    LET game_window == WindowFromDC(thr[t].dc)
        swapped     == game_window # NULL /\ swapOk
        failed      == (IF game_window = NULL THEN {"window"} ELSE {})
                       \cup (IF ~swapped THEN {"swap"} ELSE {})
    IN
    /\ alive
    /\ thr[t].pc = "swap"
    /\ ORIG_HWND' = SetWindowLongPtrW(wndProc, swapped)
    /\ wndProc' = IF swapped THEN "hook" ELSE wndProc
    /\ initRuns' = initRuns + 1
    /\ initFailed' = (initFailed \/ failed # {})
    /\ thr' = [thr EXCEPT ![t].pc = "store", ![t].id = initRuns + 1,
                          ![t].failed = failed]
    /\ UNCHANGED <<INIT, IMGUI, IMGUI_RENDERER, alive, nCalls, nOrig,
                   nFrames, lastCall, nEvents, evt, last, boot, resolve>>

\* Context::create() up to Renderer::new, then IMGUI = Some(imgui),
\* IMGUI_RENDERER = Some(renderer), INIT = true (lines 212-252).
StoreOverlay(t) ==
    LET imgui == ContextCreate(thr[t].id)
    IN
    /\ alive
    /\ thr[t].pc = "store"
    /\ IMGUI' = Some(imgui)
    /\ IMGUI_RENDERER' = Some(RendererNew(imgui))
    /\ INIT' = TRUE
    /\ thr' = [thr EXCEPT ![t].pc = "frame"]
    /\ UNCHANGED <<ORIG_HWND, wndProc, alive, nCalls, nOrig, nFrames,
                   initRuns, initFailed, lastCall, nEvents, evt, last, boot,
                   resolve>>

\* `if unsafe { INIT }` and the frame (lines 255-279).
DrawFrame(t) ==
    /\ alive
    /\ thr[t].pc = "frame"
    /\ IF INIT
       THEN /\ IMGUI' = Some([Unwrap(IMGUI) EXCEPT
                                 !.io = set_mouse_pos(end_frame(@))])
            /\ nFrames' = nFrames + 1
       ELSE UNCHANGED <<IMGUI, nFrames>>
    /\ thr' = [thr EXCEPT ![t].pc = "call", ![t].frame = INIT]
    /\ UNCHANGED <<INIT, IMGUI_RENDERER, ORIG_HWND, wndProc, alive, nCalls,
                   nOrig, initRuns, initFailed, lastCall, nEvents, evt, last,
                   boot, resolve>>

\* OpenGl32wglSwapBuffers.call(dc) (line 281) and the return to the host.
CallOriginal(t) ==
    LET fwd == call_original(thr[t].dc)
    IN
    /\ alive
    /\ thr[t].pc = "call"
    /\ nOrig' = nOrig + Len(fwd)
    /\ lastCall' = Some([dc |-> thr[t].dc, fwd |-> fwd,
                         init |-> thr[t].init, frame |-> thr[t].frame,
                         failed |-> thr[t].failed, returned |-> TRUE,
                         elapsed |-> 16])
    /\ last' = "present"
    /\ thr' = [thr EXCEPT ![t] = Idle]
    /\ UNCHANGED <<INIT, IMGUI, IMGUI_RENDERER, ORIG_HWND, wndProc, alive,
                   nCalls, nFrames, initRuns, initFailed, nEvents, evt, boot,
                   resolve>>

---------------------------------------------------------------------------
(* Specifications                                                          *)

\* The statics hold their initial values, the game window still has the
\* host's own procedure and no entry point has run.
Statics ==
    /\ INIT = FALSE
    /\ IMGUI = None
    /\ IMGUI_RENDERER = None
    /\ ORIG_HWND = None
    /\ wndProc = "host"
    /\ alive = TRUE
    /\ nCalls = 0
    /\ nOrig = 0
    /\ nFrames = 0
    /\ initRuns = 0
    /\ initFailed = FALSE
    /\ lastCall = None
    /\ nEvents = 0
    /\ evt = None
    /\ last = "none"
    /\ thr = [t \in Threads |-> Idle]

\* The state once the redirection is enabled and before the host's first
\* presentation call.
Init ==
    /\ Statics
    /\ boot = Enabled
    /\ resolve = None

\* The host presents a frame; every library step returns.
Present ==
    \E dc \in DCs, swapOk \in BOOLEAN :
        wglSwapBuffers_detour(dc, swapOk, "none", 16)

\* The host presents a frame; a library step may panic.
PresentPanic ==
    \E dc \in DCs, swapOk \in BOOLEAN, panicAt \in PanicPoints :
        wglSwapBuffers_detour(dc, swapOk, panicAt, 16)

\* The window system delivers an event to the installed custom procedure.
WndProc ==
    \E umsg \in Msgs, r1 \in OrigResults, r2 \in OrigResults :
        \E p \in Params(umsg) :
            wndproc_hook(GameWindow, umsg, p[1], p[2], r1, r2)

Next == Present \/ WndProc

\* The library steps of the overlay always return.
Spec == Init /\ [][Next]_vars

NextPanic == Present \/ PresentPanic \/ WndProc

\* The library steps of the overlay may panic.
SpecPanic == Init /\ [][NextPanic]_vars

\* The milliseconds between two presentation calls of the host: the same
\* millisecond, a 60 Hz frame, a 30 Hz frame.
FrameTimes == {0, 16, 33}

\* The host presents a frame at a pace of its own; every library step
\* returns.
PresentAtPace ==
    \E dc \in DCs, swapOk \in BOOLEAN, elapsed \in FrameTimes :
        wglSwapBuffers_detour(dc, swapOk, "none", elapsed)

NextClock == PresentAtPace \/ WndProc

\* The host's frame pace varies.
SpecClock == Init /\ [][NextClock]_vars

\* The state when the loader is about to call the library's entry point
InitStartup ==
    /\ Statics
    /\ boot = Unloaded
    /\ resolve = None

\* The loader calls the library's entry point.
Load ==
    \E call_reason \in CallReasons, env \in Environments :
        DllMain(call_reason, env)

NextStartup == Load \/ Present \/ WndProc

\* The library from its load on.
SpecStartup == InitStartup /\ [][NextStartup]_vars

\* A host thread presents a frame.
Call == \E t \in Threads, dc \in DCs : Enter(t, dc)

\* A host thread inside the detour takes its next step.
Check == \E t \in Threads : CheckInit(t)

Swap == \E t \in Threads, swapOk \in BOOLEAN : SwapWndProc(t, swapOk)

Store == \E t \in Threads : StoreOverlay(t)

Draw == \E t \in Threads : DrawFrame(t)

Forward == \E t \in Threads : CallOriginal(t)

\* The window system delivers a key, activation or paint event on the
\* thread that owns the window.
ThreadMsgs == {WM_KEYDOWN, WM_ACTIVATE, WM_PAINT}

WndProcAnyTime ==
    \E umsg \in ThreadMsgs, r1 \in OrigResults, r2 \in OrigResults :
        \E p \in Params(umsg) :
            wndproc_hook(GameWindow, umsg, p[1], p[2], r1, r2)

NextThreads ==
    Call \/ Check \/ Swap \/ Store \/ Draw \/ Forward \/ WndProcAnyTime

\* Two host threads present frames while the window's thread handles
\* events.
SpecThreads == Init /\ [][NextThreads]_vars

\* A call of get_module_library about to be made: any two names, in a
\* process where opengl32.dll is loaded or not and exports the function
\* or not.
InitResolve ==
    /\ Statics
    /\ boot = Unloaded
    /\ resolve \in {Some(r) : r \in [module : Names, function : Names,
                                     loaded : {{}, {Opengl32Dll}},
                                     exports : {{}, {WglSwapBuffers}},
                                     outcome : {"pending"}]}

\* get_module_library on its own.
SpecResolve == InitResolve /\ [][Resolve]_vars

---------------------------------------------------------------------------
(* Properties                                                              *)

\* this step is a presentation call
CallStep == nCalls' = nCalls + 1

\* this step is a window event
EventStep == nEvents' = nEvents + 1

\* the last window event, when it ran to its return
Returned(e) == IsSome(e) /\ Unwrap(e).outcome = "returned"

\* C1: every presentation call invokes the original presentation function
\* exactly once, with the device context it was given; after N calls the
\* original has been invoked N times.
C1_OriginalOncePerCall ==
    /\ nOrig = nCalls
    /\ IsSome(lastCall) => Unwrap(lastCall).fwd = <<Unwrap(lastCall).dc>>

\* Three calls made, the last with the window-less device context.
C1_Witness ==
    /\ nCalls = 3
    /\ nOrig = 3
    /\ Unwrap(lastCall).dc = "dcOffscreen"
    /\ Unwrap(lastCall).fwd = <<"dcOffscreen">>

\* C2: an event that is not the activation message is forwarded to the
\* displaced original procedure with the window handle, message code,
\* wparam and lparam it came with, and the custom procedure returns the
\* value the original procedure returned (to the last forwarding).
C2_ForwardUnchanged ==
    (IsSome(evt) /\ Unwrap(evt).msg # WM_ACTIVATE) =>
        LET e == Unwrap(evt)
        IN  /\ e.outcome = "returned"
            /\ Len(e.calls) >= 1
            /\ \A i \in 1..Len(e.calls) :
                   e.calls[i].args = [hwnd |-> e.hwnd, msg |-> e.msg,
                                      wparam |-> e.wparam, lparam |-> e.lparam]
            /\ e.ret = e.calls[Len(e.calls)].ret

\* An unrecognised message with a non-zero lparam was forwarded and the
\* original's answer 0 came back.
C2_Witness ==
    /\ Returned(evt)
    /\ Unwrap(evt).msg = WM_MOUSEMOVE
    /\ Unwrap(evt).lparam = 9
    /\ Unwrap(evt).calls # <<>>
    /\ Unwrap(evt).ret = 0

\* C3: an activation event is reported as consumed (the result is 1) and the
\* original procedure is not invoked for it, whatever its parameters and
\* whatever the input model holds.
C3_ActivateConsumed ==
    (IsSome(evt) /\ Unwrap(evt).msg = WM_ACTIVATE) =>
        /\ Unwrap(evt).outcome = "returned"
        /\ Unwrap(evt).ret = CONSUMED
        /\ Unwrap(evt).calls = <<>>

\* An activation event arrived while a button was held down.
C3_Witness ==
    /\ Returned(evt)
    /\ Unwrap(evt).msg = WM_ACTIVATE
    /\ Unwrap(evt).wparam = W(32, 2)
    /\ Unwrap(evt).pre.mouse_down[0]

\* C4: the initialization block runs exactly once, on the first presentation
\* call; every later call finds INIT set and leaves the context, the
\* renderer and the saved original procedure as they are.
C4_InitOnce ==
    /\ [](nCalls >= 1 => (initRuns = 1 /\ INIT))
    /\ [][(CallStep /\ nCalls = 0) => Unwrap(lastCall').init]_vars
    /\ [][(CallStep /\ nCalls >= 1) =>
            /\ ~Unwrap(lastCall').init
            /\ Unwrap(IMGUI').id = Unwrap(IMGUI).id
            /\ IMGUI_RENDERER' = IMGUI_RENDERER
            /\ ORIG_HWND' = ORIG_HWND
            /\ wndProc' = wndProc]_vars

\* A third call that did not initialize.
C4_Witness ==
    /\ nCalls = 3
    /\ initRuns = 1
    /\ ~Unwrap(lastCall).init
    /\ Unwrap(lastCall).frame

\* C5: a presentation call in which an overlay step failed still invokes the
\* original presentation function and returns to the host.
C5_OriginalDespiteFailure ==
    (IsSome(lastCall) /\ Unwrap(lastCall).failed # {}) =>
        /\ Unwrap(lastCall).returned
        /\ Unwrap(lastCall).fwd = <<Unwrap(lastCall).dc>>

\* C6: once initialization has failed, a later presentation call only
\* forwards to the original: it neither initializes again nor advances and
\* renders an overlay frame.
C6_PassThroughAfterInitFailure ==
    [][(initFailed /\ CallStep) =>
          /\ initRuns' = initRuns
          /\ nFrames' = nFrames
          /\ nOrig' = nOrig + 1]_vars

\* C7: the context, the renderer and the saved original procedure are all
\* absent or all present whenever an entry point can observe them.
C7_AllOrNothing ==
    \/ (~IsSome(IMGUI) /\ ~IsSome(IMGUI_RENDERER) /\ ~IsSome(ORIG_HWND))
    \/ (IsSome(IMGUI) /\ IsSome(IMGUI_RENDERER) /\ IsSome(ORIG_HWND))

\* the input model before and after a step
IoBefore == Unwrap(IMGUI).io

IoAfter == Unwrap(IMGUI').io

\* this step is a window event that ran to its return on a present context
HandledStep == EventStep /\ IsSome(IMGUI) /\ Returned(evt')

\* a wparam that is a key code in [0, 256)
IsKeyCode(w) == w.up = 0 /\ w.lw \in 0..255

\* C8: a key-down (or system key-down) event with a code k in [0, 256) sets
\* entry k of the key-down table and changes no other entry; a key-up (or
\* system key-up) event with code k clears exactly entry k; a key event with
\* a code of 256 or more changes no entry.
C8_KeyTable ==
    [][(HandledStep /\ Unwrap(evt').msg \in KeyMsgs) =>
          LET e == Unwrap(evt')
          IN  IF IsKeyCode(e.wparam)
              THEN IF e.msg \in {WM_KEYDOWN, WM_SYSKEYDOWN}
                   THEN IoAfter.keys_down = IoBefore.keys_down \cup {e.wparam.lw}
                   ELSE IoAfter.keys_down = IoBefore.keys_down \ {e.wparam.lw}
              ELSE IoAfter.keys_down = IoBefore.keys_down]_vars

\* Key 65 went down and up again while key 255 stayed down.
C8_Witness ==
    /\ Returned(evt)
    /\ Unwrap(evt).msg = WM_KEYUP
    /\ Unwrap(evt).wparam = W(0, 65)
    /\ Unwrap(IMGUI).io.keys_down = {255}
    /\ nEvents = 3

\* the button-down and button-up message codes
DownMsgs == {WM_LBUTTONDOWN, WM_LBUTTONDBLCLK, WM_RBUTTONDOWN, WM_RBUTTONDBLCLK,
             WM_MBUTTONDOWN, WM_MBUTTONDBLCLK, WM_XBUTTONDOWN, WM_XBUTTONDBLCLK}

UpMsgs == {WM_LBUTTONUP, WM_RBUTTONUP, WM_MBUTTONUP, WM_XBUTTONUP}

\* the logical button a button event is about
ButtonOf(e) ==
    CASE e.msg \in {WM_LBUTTONDOWN, WM_LBUTTONDBLCLK, WM_LBUTTONUP} -> 0
      [] e.msg \in {WM_RBUTTONDOWN, WM_RBUTTONDBLCLK, WM_RBUTTONUP} -> 1
      [] e.msg \in {WM_MBUTTONDOWN, WM_MBUTTONDBLCLK, WM_MBUTTONUP} -> 2
      [] OTHER -> IF e.wparam.up % 65536 = 1 THEN 3 ELSE 4

\* this step is a button-up event that comes right after the button-down
\* event of the same logical button
DownUpPair ==
    /\ last = "event"
    /\ Returned(evt)
    /\ Unwrap(evt).msg \in DownMsgs
    /\ HandledStep
    /\ Unwrap(evt').msg \in UpMsgs
    /\ ButtonOf(Unwrap(evt')) = ButtonOf(Unwrap(evt))

\* C9 as stated: after a button-down event followed immediately by the
\* corresponding button-up event, the button's flag has the value it had
\* before the two events.
C9_PairRestoresFlag ==
    [][DownUpPair =>
          LET b == ButtonOf(Unwrap(evt))
          IN  IoAfter.mouse_down[b] = Unwrap(evt).pre.mouse_down[b]]_vars

\* C9 as amended: after a button-down event followed immediately by the
\* corresponding button-up event the button's flag is false, which is the
\* value it had before the two events exactly when the button was up before
\* them; no other button's flag differs from its value before the pair.
C9_PairClearsFlag ==
    [][DownUpPair =>
          LET b   == ButtonOf(Unwrap(evt))
              pre == Unwrap(evt).pre.mouse_down
          IN  /\ IoAfter.mouse_down[b] = FALSE
              /\ (IoAfter.mouse_down[b] = pre[b]) <=> (pre[b] = FALSE)
              /\ \A o \in (0..4) \ {b} : IoAfter.mouse_down[o] = pre[o]]_vars

\* Extended button 2 was pressed and released straight away while the left
\* button stayed down.
C9_Witness ==
    /\ Returned(evt)
    /\ nEvents = 3
    /\ Unwrap(evt).msg = WM_XBUTTONUP
    /\ Unwrap(evt).pre.mouse_down[4]
    /\ Unwrap(evt).pre.mouse_down[0]
    /\ ~Unwrap(IMGUI).io.mouse_down[4]
    /\ Unwrap(IMGUI).io.mouse_down[0]

\* the high word of a wparam read as a signed 16-bit number
SignedHighWord(w) ==
    LET h == w.up % 65536 IN IF h < 32768 THEN h ELSE h - 65536

\* the wheel accumulator a wheel message is about
Axis(io, umsg) == IF umsg = WM_MOUSEWHEEL THEN io.mouse_wheel ELSE io.mouse_wheel_h

\* C10: a vertical (horizontal) wheel event adds delta / WHEEL_DELTA, delta
\* being the high word of wparam read as a signed 16-bit number, to the
\* vertical (horizontal) accumulator and changes nothing else of the input
\* model; two consecutive wheel events on one axis with deltas d1 and d2
\* raise its accumulator by (d1 + d2) / WHEEL_DELTA.
C10_WheelLinear ==
    [][(HandledStep /\ Unwrap(evt').msg \in WheelMsgs) =>
          LET e  == Unwrap(evt')
              d2 == SignedHighWord(e.wparam)
              a0 == Axis(IoBefore, e.msg)
              a1 == Axis(IoAfter, e.msg)
          IN  /\ a1.den = WHEEL_DELTA /\ a0.den = WHEEL_DELTA
              /\ a1.num = a0.num + d2
              /\ IoAfter = IF e.msg = WM_MOUSEWHEEL
                           THEN [IoBefore EXCEPT !.mouse_wheel = a1]
                           ELSE [IoBefore EXCEPT !.mouse_wheel_h = a1]
              /\ (last = "event" /\ Returned(evt) /\ Unwrap(evt).msg = e.msg) =>
                    LET d1  == SignedHighWord(Unwrap(evt).wparam)
                        pre == Axis(Unwrap(evt).pre, e.msg)
                    IN  a1.num = pre.num + d1 + d2]_vars

\* A vertical wheel event of +120 followed at once by one of -32768, with a
\* horizontal event of -120 before them.
C10_Witness ==
    /\ Returned(evt)
    /\ nEvents = 3
    /\ Unwrap(evt).msg = WM_MOUSEWHEEL
    /\ Unwrap(evt).wparam = W(32768, 0)
    /\ Unwrap(evt).pre.mouse_wheel.num = 120
    /\ Unwrap(IMGUI).io.mouse_wheel.num = -32648
    /\ Unwrap(IMGUI).io.mouse_wheel_h.num = -120

\* C11: an extended-button down, double-click or up event is about logical
\* button 3 when the high word (bits 16..31) of wparam is XBUTTON1 (0x0001)
\* and about button 4 for every other high word (0x0002 included), whatever
\* the low word holds; only that button's flag is set (down, double-click)
\* or cleared (up).
C11_ExtendedButtonIndex ==
    [][(HandledStep /\ Unwrap(evt').msg \in XButtonMsgs) =>
          LET e == Unwrap(evt')
              b == IF e.wparam.up % 65536 = 1 THEN 3 ELSE 4
          IN  IoAfter = [IoBefore EXCEPT
                            !.mouse_down[b] = (e.msg # WM_XBUTTONUP)]]_vars

\* Button 4 was pressed (high word 2), then an event with high word 1 and
\* low-word flags 0x20 pressed button 3.
C11_Witness ==
    /\ Returned(evt)
    /\ nEvents = 2
    /\ Unwrap(evt).msg = WM_XBUTTONDBLCLK
    /\ Unwrap(evt).wparam = W(1, 32)
    /\ Unwrap(evt).pre.mouse_down[4]
    /\ ~Unwrap(evt).pre.mouse_down[3]
    /\ Unwrap(IMGUI).io.mouse_down[3]
    /\ Unwrap(IMGUI).io.mouse_down[4]

\* C12: every presentation call computes the frame delta as the time
\* elapsed since the previous presentation call (zero or a small nominal
\* value on the first call), never negative, and applies it to the UI
\* context before the frame begins: after a call that drew a frame,
\* io.delta_time is the elapsed time of that call within a millisecond.
C12_DeltaIsElapsed ==
    (IsSome(lastCall) /\ Unwrap(lastCall).frame) =>
        LET dt == Unwrap(IMGUI).io.delta_time
            el == 1000 * Unwrap(lastCall).elapsed
        IN  /\ dt >= 0
            /\ IF nCalls = 1
               THEN dt \in {0, NewIo.delta_time}
               ELSE el - 1000 <= dt /\ dt <= el + 1000

\* C13: the input state is written only by the event interceptor: a
\* presentation call leaves every field of it (key flags, button flags,
\* pointer position) as the last event, or the construction of the
\* context, left it, apart from the per-frame reset of the transient deltas
\* (wheel accumulators, character queue).
C13_FrameKeepsInputState ==
    [][(CallStep /\ IsSome(IMGUI')) =>
          LET before == IF IsSome(IMGUI) THEN IoBefore ELSE NewIo
          IN  /\ IoAfter.keys_down = before.keys_down
              /\ IoAfter.mouse_down = before.mouse_down
              /\ IoAfter.mouse_pos = before.mouse_pos
              /\ IoAfter.mouse_wheel \in {before.mouse_wheel, NewIo.mouse_wheel}
              /\ IoAfter.mouse_wheel_h
                     \in {before.mouse_wheel_h, NewIo.mouse_wheel_h}
              /\ IoAfter.chars \in {before.chars, <<>>}]_vars

\* C14: on process attach the start-up steps run in the order console
\* creation, symbol resolution, installation of the redirection, enabling
\* of the redirection; when a step fails no later step runs, the
\* redirection is not enabled (no presentation call is diverted), and the
\* entry point returns a failure value to the loader instead of crashing
\* the host; when no step fails all four have run and it returns success.
C14_StartupInOrder ==
    boot.attached =>
        LET order == <<"console", "resolve", "initialize", "enable">>
            ok    == <<boot.env.alloc,
                       Opengl32Dll \in boot.env.loaded
                           /\ WglSwapBuffers \in boot.env.exports,
                       boot.env.initialize,
                       boot.env.enable>>
            bad   == {i \in 1..4 : ~ok[i]}
        IN  IF bad = {}
            THEN /\ boot.steps = order
                 /\ boot.enabled
                 /\ boot.ret = Some(TRUE)
            ELSE LET k == CHOOSE i \in bad : \A j \in bad : i <= j
                 IN  /\ boot.steps = SubSeq(order, 1, k)
                     /\ ~boot.enabled
                     /\ boot.ret = Some(FALSE)
                     /\ alive
                     /\ nCalls = 0

\* The installation failed after the console was created and the symbol
\* resolved: the entry point returned FALSE and enable was never tried.
C14_Witness ==
    /\ boot.attached
    /\ ~boot.env.initialize
    /\ boot.steps = <<"console", "resolve", "initialize">>
    /\ boot.ret = Some(FALSE)
    /\ ~boot.enabled
    /\ alive

\* C15: get_module_library never panics: a name with an embedded NUL byte
\* yields a resolution error, as do a module that is not loaded and a
\* symbol the module does not export.
C15_ResolveNeverPanics ==
    (IsSome(resolve) /\ Unwrap(resolve).outcome # "pending") =>
        LET r == Unwrap(resolve)
        IN  /\ r.outcome \in {"Ok", "Err"}
            /\ (\/ CString_new(r.module) = "Err"
                \/ CString_new(r.function) = "Err"
                \/ r.module \notin r.loaded
                \/ r.function \notin r.exports) => r.outcome = "Err"

\* C16: the event interceptor goes from Unarmed to Armed once, inside the
\* initialization block: the window's procedure changes only where the
\* block swaps it, from the host's procedure to wndproc_hook with the
\* host's procedure saved in ORIG_HWND.  Once armed the window stays armed,
\* ORIG_HWND is never overwritten and never holds wndproc_hook itself, and
\* no event's forwarding re-enters the custom procedure.
C16_ArmedOnce ==
    [][/\ (wndProc' # wndProc) =>
              /\ initRuns' = initRuns + 1
              /\ wndProc = "host"
              /\ wndProc' = "hook"
              /\ ORIG_HWND' = Some("host")
       /\ (wndProc = "hook") => (wndProc' = "hook" /\ ORIG_HWND' = ORIG_HWND)
       /\ ORIG_HWND' # Some("hook")
       /\ EventStep => Unwrap(evt').outcome # "overflow"]_vars

\* C17: when two presentation calls from different threads overlap during
\* the first frame, the initialization block runs at most once: never have
\* both calls seen INIT unset, and never has the window procedure been
\* swapped or a UI context been built a second time.
C17_InitAtMostOnce ==
    /\ initRuns <= 1
    /\ Cardinality({t \in Threads : thr[t].init}) <= 1
    /\ IsSome(IMGUI) => Unwrap(IMGUI).id = 1

\* C18: the custom window procedure never executes while the UI context is
\* absent: however window events interleave with the steps of the
\* initialization block, an event reaches imgui_wnd_proc_impl only after
\* IMGUI has been stored and its unwrap of the context does not fail.
C18_ContextPresentInHook ==
    IsSome(evt) => Unwrap(evt).outcome # "panic"

\* C19: an event delivered to wndproc_hook causes at most one invocation
\* of the original window procedure, whatever that procedure returns.
C19_OriginalAtMostOnce ==
    IsSome(evt) => Len(Unwrap(evt).calls) <= 1

\* C20: a character event (WM_CHAR) appends exactly one character to the
\* queue of input characters, and its code is the character code carried
\* in wparam, for every code, those of 256 and above included.
C20_CharAppended ==
    [][(HandledStep /\ Unwrap(evt').msg = WM_CHAR) =>
          LET w == Unwrap(evt').wparam
          IN  IoAfter.chars = Append(IoBefore.chars, 65536 * w.up + w.lw)]_vars

===========================================================================
